---- MODULE Spec2Model ----
(***************************************************************************)
(* Botelier voice backend: the call handler (voice/call_handler.py), the   *)
(* /ws/call endpoint (api/websockets.py) and the pipeline factory          *)
(* (voice/engine.py) as state machines.                                    *)
(*                                                                         *)
(* One CallHandler object is shared by the handle_call invocations of      *)
(* Calls; every `await` of handle_call is a point where another invocation,*)
(* hangup_call or a cancellation of the coroutine may run, so each action  *)
(* below is the code between two awaits.  websocket.close() is taken to    *)
(* complete within the block that calls it.                                *)
(***************************************************************************)
EXTENDS Integers, Sequences, FiniteSets, TLC

None == "None"

\* ------------------------------------------------------------------ bounds
NumCalls == 2
MaxTurns == 1
NumEndpointConns == 2
NumSessions == 2
MaxEvents == 3
MaxMessages == 1
NumPurchases == 2
MaxParams == 2

Calls == 1..NumCalls
EConns == 1..NumEndpointConns
SessionObjs == 1..NumSessions
SessionIds == {"s1", "s2"}
AgentIds == {"ag1", "ag2"}
CallSids == {"CA1", "CA2"}
\* Keys a Python dict takes here: a call sid, or None.  Value 0: no entry.
RegistryKeys == CallSids \cup {None}

\* ------------------------------------------------------- repository content
\* Purchase requests in flight at once, and the numbers they ask for.
PurchaseRequests == 1..NumPurchases
PurchasableNumbers == {"+1001", "+1002"}

\* Columns of the mapped class Assistant.
AssistantColumns ==
    {"id", "hotel_id", "name", "description", "stt_provider", "llm_provider",
     "tts_provider", "stt_model", "llm_model", "tts_model", "tts_voice",
     "system_prompt", "first_message", "language", "temperature", "max_tokens",
     "stt_config", "llm_config", "tts_config", "is_active", "created_at",
     "updated_at"}

\* Attributes _create_agent_config reads from the assistant object.
ConfigReads ==
    {"id", "hotel_id", "name", "description", "status", "stt_provider",
     "stt_model", "stt_language", "stt_config", "llm_provider", "llm_model",
     "temperature", "max_tokens", "llm_config", "tts_provider", "tts_voice",
     "tts_model", "tts_speed", "tts_config", "system_prompt",
     "greeting_message"}

\* The objects the injected session returns for db.query(Assistant).  a3 is an
\* instance of the mapped class as models/assistant.py declares it; a1, a2
\* and a4 are objects that also carry the attributes handle_call reads
\* beyond those columns (the session is a constructor argument).  "greeting"
\* is the configured greeting text: the value of first_message, and of
\* greeting_message where the object has that attribute.
Assistants ==
    {[id |-> "a1", hotel_id |-> "h1", attrs |-> AssistantColumns \cup ConfigReads,
      system_prompt |-> "prompt-1", greeting |-> "Hello! How can I help?",
      stt_provider |-> "deepgram", llm_provider |-> "openai",
      llm_model |-> "gpt-4o-mini", tts_provider |-> "cartesia"],
     [id |-> "a2", hotel_id |-> "h2", attrs |-> AssistantColumns \cup ConfigReads,
      system_prompt |-> "prompt-2", greeting |-> None,
      stt_provider |-> "Deepgram", llm_provider |-> "google_gemini",
      llm_model |-> "gemini-9", tts_provider |-> "elevenlabs"],
     [id |-> "a3", hotel_id |-> "h1", attrs |-> AssistantColumns,
      system_prompt |-> "prompt-3", greeting |-> "Welcome to the hotel",
      stt_provider |-> "deepgram", llm_provider |-> "openai",
      llm_model |-> "gpt-4o-mini", tts_provider |-> "cartesia"],
     [id |-> "a4", hotel_id |-> "h2", attrs |-> AssistantColumns \cup ConfigReads,
      system_prompt |-> None, greeting |-> "Good day",
      stt_provider |-> "deepgram", llm_provider |-> "anthropic",
      llm_model |-> "claude-3-opus-20240229", tts_provider |-> "cartesia"]}

\* LLM_PROVIDERS[provider].available_models: the model ids the provider
\* catalogue lists.  The pipeline factory does not consult it.
AvailableLlmModels(provider) ==
    CASE provider = "openai" ->
           {"gpt-4o", "gpt-4o-mini", "gpt-4-turbo", "gpt-3.5-turbo"}
      [] provider = "anthropic" ->
           {"claude-3-5-sonnet-20241022", "claude-3-opus-20240229",
            "claude-3-haiku-20240307"}
      [] provider = "google_gemini" ->
           {"gemini-2.0-flash-exp", "gemini-1.5-pro", "gemini-1.5-flash"}
      [] OTHER -> {}

\* Rows of phone_numbers (phone_number is unique).  "a9" is no assistant.
PhoneNumbers ==
    {[phone_number |-> "+1001", assistant_id |-> "a1"],
     [phone_number |-> "+1002", assistant_id |-> "a2"],
     [phone_number |-> "+1003", assistant_id |-> "a3"],
     [phone_number |-> "+1004", assistant_id |-> "a4"],
     [phone_number |-> "+1005", assistant_id |-> None],
     [phone_number |-> "+1009", assistant_id |-> "a9"]}

\* Values of the to_number argument; "+1000" has no phone record.
ToNumbers == {"", "+1000", "+1001", "+1002", "+1003", "+1004", "+1005", "+1009"}

\* ------------------------------------------------------------- first message
NoMsg == [kind |-> "none", json |-> FALSE, event |-> None,
          streamSid |-> None, callSid |-> None]
\* receive_text() raises WebSocketDisconnect: the peer went away.
Disconnect == [kind |-> "disconnect", json |-> FALSE, event |-> None,
               streamSid |-> None, callSid |-> None]
FirstMessages ==
    {[kind |-> "text", json |-> FALSE, event |-> None,
      streamSid |-> None, callSid |-> None],
     [kind |-> "text", json |-> TRUE, event |-> "media",
      streamSid |-> "MZ1", callSid |-> None],
     [kind |-> "text", json |-> TRUE, event |-> "start",
      streamSid |-> None, callSid |-> "CA1"],
     [kind |-> "text", json |-> TRUE, event |-> "start",
      streamSid |-> "MZ1", callSid |-> None]}
    \cup {[kind |-> "text", json |-> TRUE, event |-> "start",
           streamSid |-> "MZ1", callSid |-> s] : s \in CallSids}

\* First messages on the /ws/call endpoint: "to" is the callee number the
\* start event carries (customParameters.to or start.to).
ENoMsg == [kind |-> "none", json |-> FALSE, event |-> None,
           streamSid |-> None, callSid |-> None, to |-> None]
EDisconnect == [kind |-> "disconnect", json |-> FALSE, event |-> None,
                streamSid |-> None, callSid |-> None, to |-> None]
EMessages ==
    {[kind |-> "text", json |-> FALSE, event |-> None,
      streamSid |-> None, callSid |-> None, to |-> None],
     [kind |-> "text", json |-> TRUE, event |-> "media",
      streamSid |-> "MZ1", callSid |-> None, to |-> None]}
    \cup [kind : {"text"}, json : {TRUE}, event : {"start"},
          streamSid : {None, "MZ1"}, callSid : {None, "CA1"},
          to : {None, "+1001", "+1005"}]

VARIABLES
    pc,            \* handle_call: position of each invocation
    to_number,     \* handle_call: the to_number argument
    ws,            \* state of each invocation's websocket
    call_sid,      \* handle_call: the local call_sid
    msg,           \* the first message read by receive_text
    built,         \* create_pipeline returned a task for this invocation
    registered,    \* this invocation has stored its task in active_calls
    cancel,        \* cancel() was called on this invocation's task
    outcome,       \* how handle_call ended
    frames,        \* what the task was given, in order: speech and caller audio
    first_spoken,  \* the text of the first speech frame the task was given
    contexts,      \* the LLMContext objects, by identity
    active_calls,  \* CallHandler.active_calls: call sid -> task (its invocation)
    epc,           \* websocket_call_endpoint: position of each connection
    ews,           \* endpoint: state of the websocket
    eaccepts,      \* endpoint: number of accept() calls on the websocket
    ereads,        \* endpoint: number of messages consumed
    emsg,          \* endpoint: the first message
    ehandled,      \* endpoint: the body of handle_call was entered
    status,        \* VoiceSession.status of each session object
    session_id,    \* VoiceSession.session_id
    session_agent, \* agent_id of VoiceSession.agent
    ended_at,      \* VoiceSession.ended_at is set
    events,        \* VoiceSession.events: the event types, in order
    messages,      \* VoiceSession.messages: how many were recorded
    active_sessions, \* AgentOrchestrator.active_sessions: id -> session object
    agents,        \* AgentOrchestrator.agents: the registered agent ids
    tools,         \* rows of the tools table
    spc,           \* assembly steps of handle_call: position
    s_row,         \* assembly: id of the assistant the call was routed to
    s_vad,         \* assembly: how initialising the analyzers goes
    s_params,      \* assembly: what create_transport_params returned
    s_fns,         \* assembly: function names registered on the LLM stage
    s_failed_at,   \* assembly: the step that raised
    mapped,        \* the last map_tool_to_function call and its outcome
    loaded,        \* the last load_tools_for_assistant call and its outcome
    h_kind,        \* tool handler being executed: its tool type
    h_env,         \* tool handler: the tool's config and what surrounds the call
    hpc,           \* tool handler: position
    h_trace,       \* tool handler: frames pushed, commands issued, results given
    h_raised,      \* tool handler: the exception that left the handler
    kbs,           \* rows of the knowledge_bases table
    docs,          \* rows of the knowledge_documents table
    kpc,           \* query_hotel_knowledge: position
    k_args,        \* query_hotel_knowledge: params.arguments
    k_env,         \* query_hotel_knowledge: what surrounds the invocation
    k_content,     \* query_hotel_knowledge: what load_hotel_knowledge returned
    k_trace,       \* query_hotel_knowledge: requests made and results given
    k_caught,      \* query_hotel_knowledge: the exception its except caught
    k_raised,      \* query_hotel_knowledge: the exception that left it
    s_stages,      \* assembly: the processors create_pipeline gave to Pipeline
    s_processors,  \* assembly: what task.pipeline.processors holds
    entries,       \* rows of the knowledge_entries table
    listed,        \* the last entry listing requested and its outcome
    m_parameters,  \* mapper: config["parameters"] of the tool last mapped
    m_schema,      \* mapper: the function schema made of it
    phones,        \* rows of the phone_numbers table
    ppc,           \* purchase requests: position
    p_number,      \* purchase requests: the number asked for
    last_assigned  \* per number: the assistant of the latest assignment

callVars == <<pc, to_number, ws, call_sid, msg, built, registered, cancel,
              outcome, frames, first_spoken, contexts, active_calls>>
endpointVars == <<epc, ews, eaccepts, ereads, emsg, ehandled>>
sessionVars == <<status, session_id, session_agent, ended_at, events,
                 messages, active_sessions, agents>>
setupVars == <<tools, spc, s_row, s_vad, s_params, s_fns, s_failed_at,
               mapped, loaded>>
handlerVars == <<h_kind, h_env, hpc, h_trace, h_raised>>
knowledgeVars == <<kbs, docs, kpc, k_args, k_env, k_content, k_trace,
                   k_caught, k_raised>>
pipelineVars == <<s_stages, s_processors>>
entryVars == <<entries, listed>>
mapperVars == <<m_parameters, m_schema>>
phoneVars == <<phones, ppc, p_number, last_assigned>>
dataVars == <<pipelineVars, entryVars, mapperVars, phoneVars>>
auxVars == <<sessionVars, setupVars, handlerVars, knowledgeVars, dataVars>>
vars == <<callVars, endpointVars, auxVars>>

Init ==
    /\ pc = [c \in Calls |-> "idle"]
    /\ to_number = [c \in Calls |-> None]
    /\ ws = [c \in Calls |-> "CONNECTING"]
    /\ call_sid = [c \in Calls |-> None]
    /\ msg = [c \in Calls |-> NoMsg]
    /\ built = [c \in Calls |-> FALSE]
    /\ registered = [c \in Calls |-> FALSE]
    /\ cancel = [c \in Calls |-> FALSE]
    /\ outcome = [c \in Calls |-> None]
    /\ frames = [c \in Calls |-> <<>>]
    /\ first_spoken = [c \in Calls |-> None]
    /\ contexts = [c \in Calls |-> <<>>]
    /\ active_calls = [s \in RegistryKeys |-> 0]
    /\ epc = [e \in EConns |-> "idle"]
    /\ ews = [e \in EConns |-> "CONNECTING"]
    /\ eaccepts = [e \in EConns |-> 0]
    /\ ereads = [e \in EConns |-> 0]
    /\ emsg = [e \in EConns |-> ENoMsg]
    /\ ehandled = [e \in EConns |-> FALSE]
    /\ status = [o \in SessionObjs |-> None]
    /\ session_id = [o \in SessionObjs |-> None]
    /\ session_agent = [o \in SessionObjs |-> None]
    /\ ended_at = [o \in SessionObjs |-> FALSE]
    /\ events = [o \in SessionObjs |-> <<>>]
    /\ messages = [o \in SessionObjs |-> 0]
    /\ active_sessions = [i \in SessionIds |-> 0]
    /\ agents = {}
    /\ tools = {}
    /\ spc = "idle"
    /\ s_row = None
    /\ s_vad = None
    /\ s_params = None
    /\ s_fns = {}
    /\ s_failed_at = None
    /\ mapped = {}
    /\ loaded = {}
    /\ h_kind = None
    /\ h_env = None
    /\ hpc = "idle"
    /\ h_trace = <<>>
    /\ h_raised = None
    /\ kbs = {}
    /\ docs = {}
    /\ kpc = "idle"
    /\ k_args = [question |-> None, hotel_id |-> None]
    /\ k_env = [repository |-> None, api_key |-> FALSE, request |-> None]
    /\ k_content = [len |-> 0, truncated |-> FALSE]
    /\ k_trace = <<>>
    /\ k_caught = None
    /\ k_raised = None
    /\ s_stages = <<>>
    /\ s_processors = <<>>
    /\ entries = {}
    /\ listed = {}
    /\ m_parameters = <<>>
    /\ m_schema = {}
    /\ phones = {}
    /\ ppc = [q \in PurchaseRequests |-> "idle"]
    /\ p_number = [q \in PurchaseRequests |-> None]
    /\ last_assigned = [n \in PurchasableNumbers |-> None]

\* ------------------------------------------------------------ pure helpers
\* str.lower() on the provider names that occur in Assistants.
Lower(s) == CASE s = "Deepgram" -> "deepgram" [] OTHER -> s

\* create_stt_service / create_llm_service / create_tts_service return a
\* service; every other provider raises ValueError.
SttSupported(row) ==
    Lower(row.stt_provider) \in {"deepgram", "openai_whisper", "assemblyai"}
LlmSupported(row) ==
    Lower(row.llm_provider) \in {"openai", "google_gemini"}
TtsSupported(row) ==
    Lower(row.tts_provider) \in {"deepgram", "cartesia", "elevenlabs", "openai"}
CreatePipelineRaises(row) ==
    ~(SttSupported(row) /\ LlmSupported(row) /\ TtsSupported(row))

\* _create_agent_config: reading an attribute the object lacks raises
\* AttributeError.
CreateAgentConfigRaises(row) == ~(ConfigReads \subseteq row.attrs)

DefaultGreeting == "Hello! How can I help you today?"
DefaultSystemPrompt == "You are a friendly hotel assistant."

\* config.greeting_message and config.system_prompt.
GreetingMessage(row) ==
    IF row.greeting = None THEN DefaultGreeting ELSE row.greeting
SystemPrompt(row) ==
    IF row.system_prompt = None THEN DefaultSystemPrompt ELSE row.system_prompt

\* db.query(PhoneNumber).filter(phone_number == n).first()
PhoneRecords(n) == {r \in PhoneNumbers : r.phone_number = n}
\* db.query(Assistant).filter(id == a).first()
AssistantRows(a) == {r \in Assistants : r.id = a}

\* Faulty variant of ResolveAssistant: a number without an assigned assistant falls
\* back to assistant a1 instead of being rejected.
ResolveAssistantFallback(n) ==
    IF n = "" THEN None
    ELSE IF PhoneRecords(n) = {} THEN "a1"
    ELSE LET rec == CHOOSE r \in PhoneRecords(n) : TRUE IN
         IF rec.assistant_id = None THEN "a1"
         ELSE IF AssistantRows(rec.assistant_id) = {} THEN None
         ELSE rec.assistant_id

\* Faulty variant of ResolveAssistant: a record whose assistant does not exist
\* is routed to assistant a1.
ResolveAssistantDangling(n) ==
    IF n = "" THEN None
    ELSE IF PhoneRecords(n) = {} THEN None
    ELSE LET rec == CHOOSE r \in PhoneRecords(n) : TRUE IN
         IF rec.assistant_id = None THEN None
         ELSE IF AssistantRows(rec.assistant_id) = {} THEN "a1"
         ELSE rec.assistant_id

\* Steps 2-4 of handle_call: the assistant id the call is routed to, or None
\* when the call is rejected (empty number, no record, no assignment, no
\* such assistant).
ResolveAssistant(n) ==
    IF n = "" THEN None
    ELSE IF PhoneRecords(n) = {} THEN None
    ELSE LET rec == CHOOSE r \in PhoneRecords(n) : TRUE IN
         IF rec.assistant_id = None THEN None
         ELSE IF AssistantRows(rec.assistant_id) = {} THEN None
         ELSE rec.assistant_id

AssistantOf(n) == CHOOSE r \in Assistants : r.id = ResolveAssistant(n)

\* Faulty variant of HandshakeOk: the identifiers of the start event go unchecked.
HandshakeOkUnchecked(m) == m.json /\ m.event = "start"

\* The start event `handle_call` accepts: event == "start" with a stream sid
\* and a call sid.
HandshakeOk(m) ==
    /\ m.json
    /\ m.event = "start"
    /\ m.streamSid # None
    /\ m.callSid # None

\* The value of the local call_sid after the first message m was handled:
\* it is assigned from the start event before the identifiers are checked.
CallSidAfter(m) ==
    IF m.kind = "text" /\ m.json /\ m.event = "start" THEN m.callSid ELSE None

\* websocket.close(): the state of the socket afterwards.
WsClose(w) == "DISCONNECTED"

\* The except branch: close the socket when it is still connected.
ExceptClose(w) == IF w = "CONNECTED" THEN WsClose(w) ELSE w

\* Faulty variant of Cleanup: the finally block leaves the registry alone.
CleanupSkipped(reg, sid) == reg

\* The finally block: del active_calls[call_sid] when the key is present.
Cleanup(reg, sid) ==
    IF reg[sid] # 0 THEN [reg EXCEPT ![sid] = 0] ELSE reg

\* Faulty variant of NewContext: every call gets the same context object.
NewContextShared(c) == 1

\* LLMContext(messages): create_pipeline makes a new context object for the
\* call; the object of call c is named c.
NewContext(c) == c

SystemMessage(c, row) ==
    [role |-> "system", content |-> SystemPrompt(row), call |-> c]
UserMessage(c, i) ==
    [role |-> "user", content |-> "turn", call |-> c]
SpeakFrame(text) == [kind |-> "speak", text |-> text]
AudioFrame == [kind |-> "audio", text |-> None]

Turns(c) == Cardinality({i \in 1..Len(frames[c]) : frames[c][i].kind = "audio"})

\* The text of the first speech frame of a task's frames (was: what it was
\* before the frames changed).
FirstSpoken(fs, was) ==
    IF was # None THEN was
    ELSE LET speaks == {i \in 1..Len(fs) : fs[i].kind = "speak"} IN
         IF speaks = {} THEN None
         ELSE fs[CHOOSE i \in speaks : \A j \in speaks : i <= j].text

RECURSIVE SumTurns(_)
SumTurns(S) ==
    IF S = {} THEN 0
    ELSE LET c == CHOOSE x \in S : TRUE IN Turns(c) + SumTurns(S \ {c})

\* ------------------------------------------------------------- handle_call
\* handle_call returns (or raises) with the socket in state w: the finally
\* block has run with the local call_sid = sid, and the invocation's task
\* and context, if it had built them, are gone with its locals.
Return(c, out, w, sid) ==
    /\ pc' = [pc EXCEPT ![c] = "done"]
    /\ outcome' = [outcome EXCEPT ![c] = out]
    /\ ws' = [ws EXCEPT ![c] = w]
    /\ call_sid' = [call_sid EXCEPT ![c] = sid]
    /\ active_calls' = Cleanup(active_calls, sid)
    /\ frames' = [frames EXCEPT ![c] = <<>>]
    /\ cancel' = [cancel EXCEPT ![c] = FALSE]
    /\ contexts' = IF built[c] THEN [contexts EXCEPT ![NewContext(c)] = <<>>]
                   ELSE contexts

\* handle_call(websocket, from_number, to_number) is called: call_sid = None,
\* accept() returns, and steps 2-4 look the number and the assistant up.  A
\* rejected call closes the socket and returns through the finally block;
\* an accepted one waits in receive_text().
Invoke(c, n) ==
    /\ pc[c] = "idle"
    /\ to_number' = [to_number EXCEPT ![c] = n]
    /\ IF ResolveAssistant(n) = None
       THEN Return(c, "rejected", WsClose("CONNECTED"), call_sid[c])
       ELSE /\ ws' = [ws EXCEPT ![c] = "CONNECTED"]
            /\ pc' = [pc EXCEPT ![c] = "recv"]
            /\ UNCHANGED <<outcome, call_sid, active_calls, frames, cancel,
                           contexts>>
    /\ UNCHANGED <<msg, built, registered, first_spoken, endpointVars, auxVars>>

\* receive_text() raises WebSocketDisconnect: the except branch finds the
\* socket no longer connected, the finally block runs.
ReceiveDisconnect(c) ==
    /\ pc[c] = "recv"
    /\ msg' = [msg EXCEPT ![c] = Disconnect]
    /\ Return(c, "error", ExceptClose("DISCONNECTED"), call_sid[c])
    /\ UNCHANGED <<to_number, built, registered, first_spoken, endpointVars, auxVars>>

\* receive_text() returns a first message that is refused: not JSON
\* (json.loads raises, except branch), not a start event, or a start event
\* without stream sid or call sid (close and return).  call_sid keeps what
\* the start event carried.
ReceiveRefused(c, m) ==
    /\ pc[c] = "recv"
    /\ ~HandshakeOk(m)
    /\ msg' = [msg EXCEPT ![c] = m]
    /\ IF m.json
       THEN Return(c, "rejected", WsClose(ws[c]), CallSidAfter(m))
       ELSE Return(c, "error", ExceptClose(ws[c]), CallSidAfter(m))
    /\ UNCHANGED <<to_number, built, registered, first_spoken, endpointVars, auxVars>>

\* A valid start event, then _create_agent_config or create_pipeline raises:
\* the except branch closes the socket, the finally block runs with the
\* call_sid of the start event.
ReceiveAssemblyFails(c, m) ==
    /\ pc[c] = "recv"
    /\ HandshakeOk(m)
    /\ \/ CreateAgentConfigRaises(AssistantOf(to_number[c]))
       \/ CreatePipelineRaises(AssistantOf(to_number[c]))
    /\ msg' = [msg EXCEPT ![c] = m]
    /\ Return(c, "error", ExceptClose(ws[c]), CallSidAfter(m))
    /\ UNCHANGED <<to_number, built, registered, first_spoken, endpointVars, auxVars>>

\* A valid start event and a pipeline: steps 4-10.  The context is seeded
\* with the system prompt, the task is stored under call_sid, and the
\* coroutine waits in task.queue_frames().
ReceiveStart(c, m) ==
    /\ pc[c] = "recv"
    /\ HandshakeOk(m)
    /\ ~CreateAgentConfigRaises(AssistantOf(to_number[c]))
    /\ ~CreatePipelineRaises(AssistantOf(to_number[c]))
    /\ msg' = [msg EXCEPT ![c] = m]
    /\ call_sid' = [call_sid EXCEPT ![c] = CallSidAfter(m)]
    /\ built' = [built EXCEPT ![c] = TRUE]
    /\ contexts' = [contexts EXCEPT ![NewContext(c)] =
                        <<SystemMessage(c, AssistantOf(to_number[c]))>>]
    /\ active_calls' = [active_calls EXCEPT ![CallSidAfter(m)] = c]
    /\ registered' = [registered EXCEPT ![c] = TRUE]
    /\ pc' = [pc EXCEPT ![c] = "queue"]
    /\ UNCHANGED <<to_number, ws, cancel, outcome, frames, first_spoken,
                   endpointVars, auxVars>>

\* Step 11: the greeting is queued on the task; the coroutine then waits in
\* task.run().
QueueGreeting(c) ==
    /\ pc[c] = "queue"
    /\ frames' = [frames EXCEPT ![c] =
                    Append(@, SpeakFrame(GreetingMessage(AssistantOf(to_number[c]))))]
    /\ first_spoken' = [first_spoken EXCEPT ![c] =
                          FirstSpoken(frames'[c], first_spoken[c])]
    /\ pc' = [pc EXCEPT ![c] = "run"]
    /\ UNCHANGED <<to_number, ws, call_sid, msg, built, registered, cancel,
                   outcome, contexts, active_calls, endpointVars, auxVars>>

\* The running pipeline takes caller audio: the user aggregator appends the
\* turn to the call's context.
ProcessTurn(c) ==
    /\ pc[c] = "run"
    /\ SumTurns(Calls) < MaxTurns
    /\ frames' = [frames EXCEPT ![c] = Append(@, AudioFrame)]
    /\ contexts' = [contexts EXCEPT ![NewContext(c)] =
                        Append(@, UserMessage(c, Turns(c) + 1))]
    /\ UNCHANGED <<pc, to_number, ws, call_sid, msg, built, registered,
                   cancel, outcome, first_spoken, active_calls, endpointVars, auxVars>>

\* The states the socket can be in when task.run() stops without an
\* Exception: handle_call closes nothing on that path, so the socket is
\* closed when the far end or the transport has closed it and is as it was
\* otherwise.
AfterRun(w) == {w, "DISCONNECTED"}

\* task.run() returns: the call ended.  handle_call logs and runs the
\* finally block.
PipelineEnds(c) ==
    /\ pc[c] = "run"
    /\ \E w \in AfterRun(ws[c]) : Return(c, "ended", w, call_sid[c])
    /\ UNCHANGED <<to_number, msg, built, registered, first_spoken,
                   endpointVars, auxVars>>

\* task.run() raises an Exception: except branch, then finally.
PipelineError(c) ==
    /\ pc[c] = "run"
    /\ Return(c, "error", ExceptClose(ws[c]), call_sid[c])
    /\ UNCHANGED <<to_number, msg, built, registered, first_spoken,
                   endpointVars, auxVars>>

\* The task observes cancel(): task.run() stops, by returning or by raising
\* CancelledError, which `except Exception` does not catch.  Either way
\* only the finally block runs.
ObserveCancel(c) ==
    /\ pc[c] = "run"
    /\ cancel[c]
    /\ \E w \in AfterRun(ws[c]) : Return(c, "cancelled", w, call_sid[c])
    /\ UNCHANGED <<to_number, msg, built, registered, first_spoken,
                   endpointVars, auxVars>>

\* The handle_call coroutine is cancelled while it waits in an await
\* (receive_text, run): CancelledError passes the except branch, the
\* finally block runs.
CancelCoroutine(c) ==
    /\ pc[c] \in {"recv", "run"}
    /\ Return(c, "aborted", ws[c], call_sid[c])
    /\ UNCHANGED <<to_number, msg, built, registered, first_spoken,
                   endpointVars, auxVars>>

\* ------------------------------------------------------------- hangup_call
\* Faulty variant of HangupTargets: every stored task is cancelled.
HangupTargetsAll(reg, sid) == {reg[s] : s \in CallSids} \ {0}

\* The tasks hangup_call(sid) calls cancel() on.
HangupTargets(reg, sid) == IF reg[sid] # 0 THEN {reg[sid]} ELSE {}

hangup_call(sid) ==
    /\ cancel' = [c \in Calls |->
                    cancel[c] \/ c \in HangupTargets(active_calls, sid)]
    /\ UNCHANGED <<pc, to_number, ws, call_sid, msg, built, registered,
                   outcome, frames, first_spoken, contexts, active_calls,
                   endpointVars, auxVars>>

\* ------------------------------------------------- websocket_call_endpoint
\* Parameters of CallHandler.handle_call besides self, and the keyword
\* arguments the endpoint calls it with.
HandleCallParams == {"websocket", "from_number", "to_number"}
EndpointKwargs ==
    {"websocket", "stream_sid", "call_sid", "from_number", "to_number"}

\* A call binds when every keyword names a parameter and every parameter is
\* given; otherwise Python raises TypeError before the body runs.
CallBinds(kwargs, params) == kwargs = params

\* all([stream_sid, call_sid, to_number])
EndpointFieldsOk(m) ==
    m.streamSid # None /\ m.callSid # None /\ m.to # None

\* The endpoint accepts the socket and waits in receive_text().
EndpointAccept(e) ==
    /\ epc[e] = "idle"
    /\ ews' = [ews EXCEPT ![e] = "CONNECTED"]
    /\ eaccepts' = [eaccepts EXCEPT ![e] = @ + 1]
    /\ epc' = [epc EXCEPT ![e] = "recv"]
    /\ UNCHANGED <<ereads, emsg, ehandled, callVars, auxVars>>

\* receive_text() raises WebSocketDisconnect: logged, nothing else.
EndpointDisconnect(e) ==
    /\ epc[e] = "recv"
    /\ emsg' = [emsg EXCEPT ![e] = EDisconnect]
    /\ ews' = [ews EXCEPT ![e] = "DISCONNECTED"]
    /\ epc' = [epc EXCEPT ![e] = "done"]
    /\ UNCHANGED <<eaccepts, ereads, ehandled, callVars, auxVars>>

\* The first message arrives.  Not JSON: except Exception closes.  Not a
\* start event, or a start event lacking a field: close.  Otherwise
\* CallHandler(db).handle_call(...) is called with EndpointKwargs: when the
\* call binds the body of handle_call is entered, and when it does not the
\* TypeError is caught by except Exception, which closes the socket.
EndpointReceive(e, m) ==
    /\ epc[e] = "recv"
    /\ emsg' = [emsg EXCEPT ![e] = m]
    /\ ereads' = [ereads EXCEPT ![e] = @ + 1]
    /\ IF m.json /\ m.event = "start" /\ EndpointFieldsOk(m)
          /\ CallBinds(EndpointKwargs, HandleCallParams)
       THEN /\ ehandled' = [ehandled EXCEPT ![e] = TRUE]
            /\ epc' = [epc EXCEPT ![e] = "handler"]
            /\ UNCHANGED ews
       ELSE /\ ews' = [ews EXCEPT ![e] = WsClose(ews[e])]
            /\ epc' = [epc EXCEPT ![e] = "done"]
            /\ UNCHANGED ehandled
    /\ UNCHANGED <<eaccepts, callVars, auxVars>>

NextEndpoint ==
    \/ \E e \in EConns : EndpointAccept(e)
    \/ \E e \in EConns : EndpointDisconnect(e)
    \/ \E e \in EConns, m \in EMessages : EndpointReceive(e, m)

SpecEndpoint == Init /\ [][NextEndpoint]_vars

Next ==
    \/ \E c \in Calls, n \in ToNumbers : Invoke(c, n)
    \/ \E c \in Calls : ReceiveDisconnect(c)
    \/ \E c \in Calls, m \in FirstMessages : ReceiveRefused(c, m)
    \/ \E c \in Calls, m \in FirstMessages : ReceiveAssemblyFails(c, m)
    \/ \E c \in Calls, m \in FirstMessages : ReceiveStart(c, m)
    \/ \E c \in Calls : QueueGreeting(c)
    \/ \E c \in Calls : ProcessTurn(c)
    \/ \E c \in Calls : PipelineEnds(c)
    \/ \E c \in Calls : PipelineError(c)
    \/ \E c \in Calls : ObserveCancel(c)
    \/ \E c \in Calls : CancelCoroutine(c)
    \/ \E sid \in CallSids : hangup_call(sid)

Spec == Init /\ [][Next]_vars

\* ------------------------------------------- VoiceSession, AgentOrchestrator
\* Session objects not yet constructed have status None.  A caller keeps the
\* object create_session returned, so start, end and record_message can be
\* called on any constructed object, in the registry or not.
Constructed(o) == status[o] # None

\* VoiceSession._record_event: append the event to self.events.
RecordEvent(evs, type) == Append(evs, type)

\* register_agent: agents[agent_id] = agent.
register_agent(a) ==
    /\ agents' = agents \cup {a}
    /\ UNCHANGED <<status, session_id, session_agent, ended_at, events,
                   messages, active_sessions, callVars, endpointVars, setupVars, handlerVars,
                   knowledgeVars,
                   dataVars>>

\* unregister_agent: delete the agent when it is registered.
unregister_agent(a) ==
    /\ agents' = agents \ {a}
    /\ UNCHANGED <<status, session_id, session_agent, ended_at, events,
                   messages, active_sessions, callVars, endpointVars, setupVars, handlerVars,
                   knowledgeVars,
                   dataVars>>

\* create_session(agent_id, session_id) for a registered agent (an unknown
\* one raises ValueError and nothing changes): VoiceSession.__init__ on a
\* new object o, then active_sessions[session_id] = session, whatever was
\* stored there.
create_session(o, a, i) ==
    /\ ~Constructed(o)
    /\ \A q \in SessionObjs : q < o => Constructed(q)
    /\ a \in agents
    /\ status' = [status EXCEPT ![o] = "initializing"]
    /\ session_id' = [session_id EXCEPT ![o] = i]
    /\ session_agent' = [session_agent EXCEPT ![o] = a]
    /\ events' = [events EXCEPT ![o] = RecordEvent(<<>>, "session_created")]
    /\ active_sessions' = [active_sessions EXCEPT ![i] = o]
    /\ UNCHANGED <<ended_at, messages, agents, callVars, endpointVars, setupVars, handlerVars,
                   knowledgeVars,
                   dataVars>>

\* VoiceSession.start()
SessionStart(o) ==
    /\ Constructed(o)
    /\ Len(events[o]) < MaxEvents
    /\ status' = [status EXCEPT ![o] = "active"]
    /\ events' = [events EXCEPT ![o] = RecordEvent(@, "session_started")]
    /\ UNCHANGED <<session_id, session_agent, ended_at, messages,
                   active_sessions, agents, callVars, endpointVars, setupVars, handlerVars,
                   knowledgeVars,
                   dataVars>>

\* What VoiceSession.end() does to the fields of object o.
EndFields(o) ==
    /\ status' = [status EXCEPT ![o] = "ended"]
    /\ ended_at' = [ended_at EXCEPT ![o] = TRUE]
    /\ events' = [events EXCEPT ![o] = RecordEvent(@, "session_ended")]

\* VoiceSession.end() called on the object.
SessionEnd(o) ==
    /\ Constructed(o)
    /\ Len(events[o]) < MaxEvents
    /\ EndFields(o)
    /\ UNCHANGED <<session_id, session_agent, messages, active_sessions,
                   agents, callVars, endpointVars, setupVars, handlerVars,
                   knowledgeVars,
                   dataVars>>

\* VoiceSession.record_message()
record_message(o) ==
    /\ Constructed(o)
    /\ messages[o] < MaxMessages
    /\ messages' = [messages EXCEPT ![o] = @ + 1]
    /\ UNCHANGED <<status, session_id, session_agent, ended_at, events,
                   active_sessions, agents, callVars, endpointVars, setupVars, handlerVars,
                   knowledgeVars,
                   dataVars>>

\* end_session(session_id): when the id is a key, end() the stored session
\* and delete the key; otherwise nothing.
end_session(i) ==
    /\ active_sessions[i] # 0
    /\ Len(events[active_sessions[i]]) < MaxEvents
    /\ EndFields(active_sessions[i])
    /\ active_sessions' = [active_sessions EXCEPT ![i] = 0]
    /\ UNCHANGED <<session_id, session_agent, messages, agents, callVars,
                   endpointVars, setupVars, handlerVars,
                   knowledgeVars,
                   dataVars>>

NextSession ==
    \/ \E a \in AgentIds : register_agent(a)
    \/ \E a \in AgentIds : unregister_agent(a)
    \/ \E o \in SessionObjs, a \in AgentIds, i \in SessionIds :
           create_session(o, a, i)
    \/ \E o \in SessionObjs : SessionStart(o)
    \/ \E o \in SessionObjs : SessionEnd(o)
    \/ \E o \in SessionObjs : record_message(o)
    \/ \E i \in SessionIds : end_session(i)

SpecSession == Init /\ [][NextSession]_vars

\* ------------------------------------- handle_call, steps 4-12, step by step
\* Rows the tools API can store (create_tool writes is_active as the string
\* "true" or "false").
ToolUniverse ==
    {[id |-> "t1", name |-> "transfer_to_front_desk",
      tool_type |-> "transfer_call", assistant_id |-> "a1", is_active |-> "true"],
     [id |-> "t2", name |-> "check_availability",
      tool_type |-> "api_request", assistant_id |-> "a1", is_active |-> "false"],
     [id |-> "t3", name |-> "send_text",
      tool_type |-> "send_sms", assistant_id |-> "a1", is_active |-> "true"],
     [id |-> "t4", name |-> "hang_up",
      tool_type |-> "end_call", assistant_id |-> "a2", is_active |-> "true"],
     [id |-> "t5", name |-> "email_receipt",
      tool_type |-> "send_email", assistant_id |-> "a2", is_active |-> "true"]}

\* Columns of the mapped class Tool, and the class attributes the query of
\* _setup_function_calling reads.
ToolColumns ==
    {"id", "name", "description", "tool_type", "config", "assistant_id",
     "created_at", "updated_at", "is_active"}
SetupQueryReads == {"hotel_id", "is_active"}

\* Names bound at module level in voice/engine.py.
EngineGlobals ==
    {"os", "Optional", "Dict", "Any", "Pipeline", "PipelineTask",
     "PipelineParams", "LLMContext", "LLMContextAggregatorPair", "Language",
     "VoiceAgentConfig", "is_flux_model", "LiveOptions", "VoiceEngineFactory"}

\* How importing and constructing the analyzers goes in this process: they
\* load, an import raises ImportError, or a constructor raises another error.
VadOutcomes == {"ok", "import_error", "init_error"}

\* config.enable_vad as _create_agent_config sets it.
EnableVad == TRUE

NoAnalyzers == [raises |-> None, vad_analyzer |-> FALSE, turn_analyzer |-> FALSE]

\* create_transport_params(config): the parameters returned, or the error
\* raised.  Only ImportError is caught, and its handler calls
\* logger.warning, which raises NameError when the module binds no logger.
create_transport_params(enable_vad, vad) ==
    IF ~enable_vad THEN NoAnalyzers
    ELSE CASE vad = "ok" ->
                [raises |-> None, vad_analyzer |-> TRUE, turn_analyzer |-> TRUE]
           [] vad = "import_error" ->
                IF "logger" \in EngineGlobals THEN NoAnalyzers
                ELSE [NoAnalyzers EXCEPT !.raises = "NameError"]
           [] vad = "init_error" ->
                [NoAnalyzers EXCEPT !.raises = "RuntimeError"]

\* map_tool_to_function(tool): a (schema, handler) pair, or the error raised.
MapOutcome(t) ==
    CASE t.tool_type \in {"transfer_call", "api_request", "end_call"} -> "handler"
      [] t.tool_type \in {"send_sms", "send_email"} -> "NotImplementedError"
      [] OTHER -> "ValueError"

\* _setup_function_calling(assistant, task, api_keys): the function names
\* registered on the LLM stage.  Reading a class attribute Tool lacks raises
\* AttributeError, which the outer except logs; a tool whose mapping raises
\* is logged and skipped.
RegisteredFunctions(row, db) ==
    IF ~(SetupQueryReads \subseteq ToolColumns) THEN {}
    ELSE {t.name : t \in {u \in db : /\ u.hotel_id = row.hotel_id
                                      /\ u.is_active = TRUE
                                      /\ MapOutcome(u) = "handler"}}

\* load_tools_for_assistant(assistant_id, db_session): the names of the
\* mapped functions, or the error of the first mapping that raises.
LoadTools(a, db) ==
    LET sel == {t \in db : t.assistant_id = a /\ t.is_active = "true"}
        bad == {t \in sel : MapOutcome(t) # "handler"}
    IN
    IF bad # {} THEN [raises |-> MapOutcome(CHOOSE t \in bad : TRUE), names |-> {}]
    ELSE [raises |-> None, names |-> {t.name : t \in sel}]

\* create_tool and delete_tool of the tools API.
create_tool(t) ==
    /\ t \notin tools
    /\ tools' = tools \cup {t}
    /\ UNCHANGED <<spc, s_row, s_vad, s_params, s_fns, s_failed_at, mapped,
                   loaded, callVars, endpointVars, sessionVars, handlerVars,
                   knowledgeVars,
                   dataVars>>

delete_tool(t) ==
    /\ t \in tools
    /\ tools' = tools \ {t}
    /\ UNCHANGED <<spc, s_row, s_vad, s_params, s_fns, s_failed_at, mapped,
                   loaded, callVars, endpointVars, sessionVars, handlerVars,
                   knowledgeVars,
                   dataVars>>

\* FunctionMapper().map_tool_to_function(tool) on a stored tool.
map_tool_to_function(t) ==
    /\ t \in tools
    /\ mapped' = {[tool |-> t, outcome |-> MapOutcome(t)]}
    /\ UNCHANGED <<tools, spc, s_row, s_vad, s_params, s_fns, s_failed_at,
                   loaded, callVars, endpointVars, sessionVars, handlerVars,
                   knowledgeVars,
                   dataVars>>

load_tools_for_assistant(a) ==
    /\ loaded' = {[assistant_id |-> a, result |-> LoadTools(a, tools)]}
    /\ UNCHANGED <<tools, spc, s_row, s_vad, s_params, s_fns, s_failed_at,
                   mapped, callVars, endpointVars, sessionVars, handlerVars,
                   knowledgeVars,
                   dataVars>>

\* A step of the assembly raises: handle_call leaves through its except
\* branch.
SetupFails(step) ==
    /\ spc' = "failed"
    /\ s_failed_at' = step

\* handle_call has read a valid start event for a call routed to the
\* assistant row; the analyzers will initialise as vad says.
SetupBegin(row, vad) ==
    /\ spc = "idle"
    /\ spc' = "config"
    /\ s_row' = row.id
    /\ s_vad' = vad
    /\ UNCHANGED <<tools, s_params, s_fns, s_failed_at, mapped, loaded,
                   callVars, endpointVars, sessionVars, handlerVars,
                   knowledgeVars,
                   dataVars>>

SetupRow == CHOOSE r \in Assistants : r.id = s_row

\* Step 4: _create_agent_config(assistant).
SetupConfig ==
    /\ spc = "config"
    /\ IF CreateAgentConfigRaises(SetupRow)
       THEN SetupFails("config")
       ELSE spc' = "transport" /\ UNCHANGED s_failed_at
    /\ UNCHANGED <<tools, s_row, s_vad, s_params, s_fns, mapped, loaded,
                   callVars, endpointVars, sessionVars, handlerVars,
                   knowledgeVars,
                   dataVars>>

\* Step 7: create_transport_params(config).
SetupTransport ==
    /\ spc = "transport"
    /\ LET p == create_transport_params(EnableVad, s_vad) IN
       IF p.raises # None
       THEN SetupFails("transport") /\ UNCHANGED s_params
       ELSE /\ spc' = "pipeline"
            /\ s_params' = p
            /\ UNCHANGED s_failed_at
    /\ UNCHANGED <<tools, s_row, s_vad, s_fns, mapped, loaded,
                   callVars, endpointVars, sessionVars, handlerVars,
                   knowledgeVars,
                   dataVars>>

\* The processors create_pipeline hands to Pipeline, in the order of its
\* list: each with the service it was made of and, for the two aggregators
\* of the LLMContextAggregatorPair, the context they are bound to.
Stage(kind, of, context) == [kind |-> kind, of |-> of, context |-> context]
PipelineStages(row) ==
    <<Stage("transport_input", "transport", None),
      Stage("stt", Lower(row.stt_provider), None),
      Stage("user_aggregator", "pair", "context"),
      Stage("llm", Lower(row.llm_provider), None),
      Stage("tts", Lower(row.tts_provider), None),
      Stage("transport_output", "transport", None),
      Stage("assistant_aggregator", "pair", "context")>>

\* What task.pipeline.processors holds.  Pipeline is pipecat's, which the
\* repository does not pin: the list it was given, or that list between the
\* source and the sink processor the pipeline adds around it.
ProcessorViews(stages) ==
    {stages,
     <<Stage("source", "pipeline", None)>> \o stages
         \o <<Stage("sink", "pipeline", None)>>}

\* Step 8: create_pipeline(config, api_keys, transport).
SetupPipeline ==
    /\ spc = "pipeline"
    /\ IF CreatePipelineRaises(SetupRow)
       THEN SetupFails("pipeline") /\ UNCHANGED pipelineVars
       ELSE /\ spc' = "functions"
            /\ s_stages' = PipelineStages(SetupRow)
            /\ s_processors' \in ProcessorViews(PipelineStages(SetupRow))
            /\ UNCHANGED s_failed_at
    /\ UNCHANGED <<tools, s_row, s_vad, s_params, s_fns, mapped, loaded,
                   callVars, endpointVars, sessionVars, handlerVars,
                   knowledgeVars, entryVars, mapperVars, phoneVars>>

\* Step 9: _setup_function_calling (enable_function_calling is always on);
\* then steps 10-12: the task is stored, the greeting queued, run() awaited.
SetupFunctions ==
    /\ spc = "functions"
    /\ s_fns' = RegisteredFunctions(SetupRow, tools)
    /\ spc' = "run"
    /\ UNCHANGED <<tools, s_row, s_vad, s_params, s_failed_at, mapped, loaded,
                   callVars, endpointVars, sessionVars, handlerVars,
                   knowledgeVars,
                   dataVars>>

NextSetup ==
    \/ \E t \in ToolUniverse : create_tool(t)
    \/ \E t \in ToolUniverse : delete_tool(t)
    \/ \E t \in ToolUniverse : map_tool_to_function(t)
    \/ \E a \in {r.id : r \in Assistants} : load_tools_for_assistant(a)
    \/ \E row \in Assistants, vad \in VadOutcomes :
           SetupBegin(row, vad)
    \/ SetupConfig
    \/ SetupTransport
    \/ SetupPipeline
    \/ SetupFunctions

SpecSetup == Init /\ [][NextSetup]_vars

\* ------------------------------------------------ function_mapper handlers
\* What surrounds a transfer_call invocation: FunctionMapper has a Twilio
\* client (both credentials were set), the aggregator has a call_sid, its
\* transport can sip_call_transfer, and the transfer command goes through or
\* raises.
TransferEnvs ==
    [has_client : BOOLEAN, has_call_sid : BOOLEAN, has_sip : BOOLEAN,
     cmd : {"ok", "raises"}]

\* Methods ApiRequestConfig.validate_method lets through.
AllowedMethods == {"GET", "POST", "PUT", "DELETE", "PATCH"}

\* An api_request invocation: the configured method, whether the model's
\* arguments name every field of the URL and header templates, and what the
\* remote end does.
ApiEnvs ==
    [method : AllowedMethods, args_ok : BOOLEAN,
     remote : {"ok_json", "unreachable", "timeout", "status_error", "non_json"}]

EndCallEnvs == {[goodbye |-> "configured"], [goodbye |-> "default"]}

Push(ev) == h_trace' = Append(h_trace, ev)

\* A handler returns, or raises exc out to the task that called it.
HandlerExit(exc) == hpc' = "done" /\ h_raised' = exc

\* The LLM stage calls the handler of a tool.
HandlerBegin(kind, env) ==
    /\ hpc \in {"idle", "done"}
    /\ h_kind' = kind
    /\ h_env' = env
    /\ hpc' = "entry"
    /\ h_trace' = <<>>
    /\ h_raised' = None
    /\ UNCHANGED <<callVars, endpointVars, sessionVars, setupVars,
                   knowledgeVars,
                   dataVars>>

\* transfer_handler, end_call_handler: push_frame(TTSSpeakFrame(message)).
HandlerSpeak ==
    /\ hpc = "entry"
    /\ h_kind \in {"transfer_call", "end_call"}
    /\ Push("speak")
    /\ hpc' = IF h_kind = "transfer_call" THEN "transfer" ELSE "end"
    /\ UNCHANGED <<h_kind, h_env, h_raised, callVars, endpointVars,
                   sessionVars, setupVars,
                   knowledgeVars,
                   dataVars>>

\* transfer_handler: the Twilio update when there is a client and a
\* call_sid, else the SIP transfer when the transport has one, else nothing;
\* an exception of either is printed and dropped.
TransferCommand ==
    /\ hpc = "transfer"
    /\ IF (h_env.has_client /\ h_env.has_call_sid) \/ h_env.has_sip
       THEN Push(IF h_env.cmd = "ok" THEN "transfer_ok" ELSE "transfer_error")
       ELSE UNCHANGED h_trace
    /\ hpc' = "end"
    /\ UNCHANGED <<h_kind, h_env, h_raised, callVars, endpointVars,
                   sessionVars, setupVars,
                   knowledgeVars,
                   dataVars>>

\* transfer_handler, end_call_handler: push_frame(EndFrame()).
HandlerEndFrame ==
    /\ hpc = "end"
    /\ Push("end_frame")
    /\ hpc' = "result"
    /\ UNCHANGED <<h_kind, h_env, h_raised, callVars, endpointVars,
                   sessionVars, setupVars,
                   knowledgeVars,
                   dataVars>>

\* transfer_handler, end_call_handler: result_callback(...), and return.
HandlerResult ==
    /\ hpc = "result"
    /\ Push(IF h_kind = "transfer_call" THEN "result_transferred"
            ELSE "result_call_ended")
    /\ HandlerExit(None)
    /\ UNCHANGED <<h_kind, h_env, callVars, endpointVars, sessionVars,
                   setupVars,
                   knowledgeVars,
                   dataVars>>

\* api_handler: url.format(**arguments) and the header templates, outside
\* any try; a field the arguments do not name raises KeyError.
ApiFormat ==
    /\ hpc = "entry"
    /\ h_kind = "api_request"
    /\ IF h_env.args_ok
       THEN hpc' = "request" /\ UNCHANGED h_raised
       ELSE HandlerExit("KeyError")
    /\ UNCHANGED <<h_kind, h_env, h_trace, callVars, endpointVars,
                   sessionVars, setupVars,
                   knowledgeVars,
                   dataVars>>

\* The methods api_handler has a branch for.
HandledMethods == {"GET", "POST", "PUT", "DELETE"}

\* api_handler inside `async with`: what is appended to the trace and what
\* is raised.  Only httpx.HTTPError is caught: transport errors, timeouts
\* and raise_for_status() are; the unbound `response` of a method without a
\* branch and the decoding error of response.json() are not.
ApiOutcome(env) ==
    IF env.method \notin HandledMethods
    THEN [trace |-> <<>>, raised |-> "UnboundLocalError"]
    ELSE CASE env.remote = "ok_json" ->
                [trace |-> <<"request", "result_data">>, raised |-> None]
           [] env.remote \in {"unreachable", "timeout", "status_error"} ->
                [trace |-> <<"request", "result_error">>, raised |-> None]
           [] env.remote = "non_json" ->
                [trace |-> <<"request">>, raised |-> "JSONDecodeError"]

ApiRequest ==
    /\ hpc = "request"
    /\ h_trace' = h_trace \o ApiOutcome(h_env).trace
    /\ HandlerExit(ApiOutcome(h_env).raised)
    /\ UNCHANGED <<h_kind, h_env, callVars, endpointVars, sessionVars,
                   setupVars,
                   knowledgeVars,
                   dataVars>>

NextHandlers ==
    \/ \E env \in TransferEnvs : HandlerBegin("transfer_call", env)
    \/ \E env \in ApiEnvs : HandlerBegin("api_request", env)
    \/ \E env \in EndCallEnvs : HandlerBegin("end_call", env)
    \/ HandlerSpeak
    \/ TransferCommand
    \/ HandlerEndFrame
    \/ HandlerResult
    \/ ApiFormat
    \/ ApiRequest

SpecHandlers == Init /\ [][NextHandlers]_vars

\* ------------------------------------------------------ knowledge_handler
MAX_KNOWLEDGE_CHARS == 50000
\* Lengths of the separator "\n\n---\n\n" between documents and of the
\* marker "\n\n[... content truncated for length]".
SeparatorLen == 7
TruncationMarkerLen == 36

\* Rows the knowledge_bases and knowledge_documents tables may hold; a
\* document is "# {filename}\n\n{content}" long once formatted.
KnowledgeBaseUniverse ==
    {[id |-> "kb1", hotel_id |-> "h1"], [id |-> "kb2", hotel_id |-> "h2"]}
DocumentUniverse ==
    {[id |-> "d1", knowledge_base_id |-> "kb1",
      filename_len |-> 9, content_len |-> 30000],
     [id |-> "d2", knowledge_base_id |-> "kb1",
      filename_len |-> 12, content_len |-> 30000],
     [id |-> "d3", knowledge_base_id |-> "kb2",
      filename_len |-> 9, content_len |-> 400]}

\* params.arguments of an invocation: .get() gives "" for a missing key.
KnowledgeArgs ==
    [question : {"", "when is breakfast"}, hotel_id : {"", "h1", "h2"}]

\* What surrounds an invocation: the repository answers or raises,
\* OPENAI_API_KEY is set or not, and the completion request returns an
\* answer, raises, or returns a message without content.
KnowledgeEnvs ==
    [repository : {"ok", "error"}, api_key : BOOLEAN,
     request : {"ok", "error", "no_content"}]

EmptyContent == [len |-> 0, truncated |-> FALSE]

\* Faulty variant of KnowledgeBasesOf: the query does not filter on the hotel.
KnowledgeBasesOfAnyHotel(hotel_id, kb_rows) == kb_rows

\* The knowledge bases the first query of load_hotel_knowledge selects.
KnowledgeBasesOf(hotel_id, kb_rows) ==
    {kb \in kb_rows : kb.hotel_id = hotel_id}

RECURSIVE FormattedLen(_)
FormattedLen(documents) ==
    IF documents = {} THEN 0
    ELSE LET d == CHOOSE x \in documents : TRUE IN
         (2 + d.filename_len + 2 + d.content_len)
             + FormattedLen(documents \ {d})

\* load_hotel_knowledge(hotel_id): the combined content, by its length and
\* whether it was truncated.
load_hotel_knowledge(hotel_id, kb_rows, doc_rows) ==
    LET kb_ids == {kb.id : kb \in KnowledgeBasesOf(hotel_id, kb_rows)}
        documents == {d \in doc_rows : d.knowledge_base_id \in kb_ids}
        combined == FormattedLen(documents)
                        + SeparatorLen * (Cardinality(documents) - 1)
    IN
    IF kb_ids = {} THEN EmptyContent
    ELSE IF documents = {} THEN EmptyContent
    ELSE IF combined > MAX_KNOWLEDGE_CHARS
         THEN [len |-> MAX_KNOWLEDGE_CHARS + TruncationMarkerLen,
               truncated |-> TRUE]
         ELSE [len |-> combined, truncated |-> FALSE]

\* Faulty variant of Catches: the handler is `except ValueError`.
CatchesValueErrorOnly(exc) == exc = "ValueError"

\* The exceptions `except Exception` of query_hotel_knowledge catches.
Catches(exc) ==
    exc \in {"OperationalError", "ValueError", "APIError", "AttributeError"}

\* create_knowledge_base and delete_knowledge_base of the knowledge API (the
\* documents of a deleted knowledge base go with it), and a document row
\* stored for an existing knowledge base.
create_knowledge_base(kb) ==
    /\ kb \notin kbs
    /\ kbs' = kbs \cup {kb}
    /\ UNCHANGED <<docs, kpc, k_args, k_env, k_content, k_trace, k_caught,
                   k_raised, callVars, endpointVars, sessionVars, setupVars,
                   handlerVars,
                   dataVars>>

delete_knowledge_base(kb) ==
    /\ kb \in kbs
    /\ kbs' = kbs \ {kb}
    /\ docs' = {d \in docs : d.knowledge_base_id # kb.id}
    /\ UNCHANGED <<kpc, k_args, k_env, k_content, k_trace, k_caught,
                   k_raised, callVars, endpointVars, sessionVars, setupVars,
                   handlerVars,
                   dataVars>>

KnowledgeDocumentStored(d) ==
    /\ d \notin docs
    /\ d.knowledge_base_id \in {kb.id : kb \in kbs}
    /\ docs' = docs \cup {d}
    /\ UNCHANGED <<kbs, kpc, k_args, k_env, k_content, k_trace, k_caught,
                   k_raised, callVars, endpointVars, sessionVars, setupVars,
                   handlerVars,
                   dataVars>>

\* An exception raised inside the try of query_hotel_knowledge.
KnowledgeRaise(exc) ==
    IF Catches(exc)
    THEN kpc' = "except" /\ k_caught' = exc /\ UNCHANGED k_raised
    ELSE kpc' = "done" /\ k_raised' = exc /\ UNCHANGED k_caught

\* The LLM stage invokes query_hotel_knowledge(params).
KnowledgeBegin(args, env) ==
    /\ kpc \in {"idle", "done"}
    /\ kpc' = "args"
    /\ k_args' = args
    /\ k_env' = env
    /\ k_content' = EmptyContent
    /\ k_trace' = <<>>
    /\ k_caught' = None
    /\ k_raised' = None
    /\ UNCHANGED <<kbs, docs, callVars, endpointVars, sessionVars, setupVars,
                   handlerVars,
                   dataVars>>

\* The two checks of the arguments, before the try.
KnowledgeCheckArgs ==
    /\ kpc = "args"
    /\ IF k_args.question = ""
       THEN kpc' = "done" /\ k_trace' = Append(k_trace, "result_repeat")
       ELSE IF k_args.hotel_id = ""
       THEN kpc' = "done" /\ k_trace' = Append(k_trace, "result_no_access")
       ELSE kpc' = "load" /\ UNCHANGED k_trace
    /\ UNCHANGED <<kbs, docs, k_args, k_env, k_content, k_caught, k_raised,
                   callVars, endpointVars, sessionVars, setupVars,
                   handlerVars,
                   dataVars>>

\* await load_hotel_knowledge(hotel_id) and the test of its result.
KnowledgeLoad ==
    /\ kpc = "load"
    /\ IF k_env.repository = "error"
       THEN /\ KnowledgeRaise("OperationalError")
            /\ UNCHANGED <<k_content, k_trace>>
       ELSE LET content == load_hotel_knowledge(k_args.hotel_id, kbs, docs) IN
            /\ k_content' = content
            /\ IF content.len = 0
               THEN /\ kpc' = "done"
                    /\ k_trace' = Append(k_trace, "result_not_available")
               ELSE kpc' = "rag" /\ UNCHANGED k_trace
            /\ UNCHANGED <<k_caught, k_raised>>
    /\ UNCHANGED <<kbs, docs, k_args, k_env, callVars, endpointVars,
                   sessionVars, setupVars, handlerVars,
                   dataVars>>

\* await query_with_rag(knowledge_content, question).
KnowledgeRag ==
    /\ kpc = "rag"
    /\ IF ~k_env.api_key
       THEN KnowledgeRaise("ValueError") /\ UNCHANGED k_trace
       ELSE /\ k_trace' = Append(k_trace, "model_request")
            /\ CASE k_env.request = "ok" ->
                      kpc' = "answer" /\ UNCHANGED <<k_caught, k_raised>>
                 [] k_env.request = "error" -> KnowledgeRaise("APIError")
                 [] k_env.request = "no_content" ->
                      KnowledgeRaise("AttributeError")
    /\ UNCHANGED <<kbs, docs, k_args, k_env, k_content, callVars,
                   endpointVars, sessionVars, setupVars, handlerVars,
                   dataVars>>

\* await params.result_callback({"answer": answer}).
KnowledgeAnswer ==
    /\ kpc = "answer"
    /\ kpc' = "done"
    /\ k_trace' = Append(k_trace, "result_answer")
    /\ UNCHANGED <<kbs, docs, k_args, k_env, k_content, k_caught, k_raised,
                   callVars, endpointVars, sessionVars, setupVars,
                   handlerVars,
                   dataVars>>

\* The except branch: the fallback phrase goes to the result callback.
KnowledgeExcept ==
    /\ kpc = "except"
    /\ kpc' = "done"
    /\ k_trace' = Append(k_trace, "result_fallback")
    /\ UNCHANGED <<kbs, docs, k_args, k_env, k_content, k_caught, k_raised,
                   callVars, endpointVars, sessionVars, setupVars,
                   handlerVars,
                   dataVars>>

NextKnowledge ==
    \/ \E kb \in KnowledgeBaseUniverse : create_knowledge_base(kb)
    \/ \E kb \in KnowledgeBaseUniverse : delete_knowledge_base(kb)
    \/ \E d \in DocumentUniverse : KnowledgeDocumentStored(d)
    \/ \E args \in KnowledgeArgs, env \in KnowledgeEnvs :
           KnowledgeBegin(args, env)
    \/ KnowledgeCheckArgs
    \/ KnowledgeLoad
    \/ KnowledgeRag
    \/ KnowledgeAnswer
    \/ KnowledgeExcept

SpecKnowledge == Init /\ [][NextKnowledge]_vars

\* ------------------------------------------------------- knowledge entries
\* Days are numbered; Today is what date.today() returns, NoDate stands for
\* an expiration_date that is NULL.
Today == 10
NoDate == 0

\* Columns of the mapped class KnowledgeEntry, the keyword arguments
\* create_entry constructs it with, and the class attributes the two
\* listings read.
EntryColumns ==
    {"id", "hotel_id", "question", "answer", "category", "expiration_date",
     "created_at", "updated_at"}
CreateEntryKwargs ==
    {"knowledge_base_id", "question", "answer", "category", "expiration_date"}
ListEntryReads ==
    {"knowledge_base_id", "category", "expiration_date", "created_at"}

\* Rows the knowledge_entries table may hold.
EntryUniverse ==
    {[id |-> "e1", hotel_id |-> "h1", category |-> "specials",
      expiration_date |-> Today - 1],
     [id |-> "e2", hotel_id |-> "h1", category |-> "specials",
      expiration_date |-> Today],
     [id |-> "e3", hotel_id |-> "h1", category |-> "hours",
      expiration_date |-> NoDate],
     [id |-> "e4", hotel_id |-> "h2", category |-> "specials",
      expiration_date |-> Today - 1]}

\* KnowledgeEntry.is_expired
is_expired(e) ==
    IF e.expiration_date = NoDate THEN FALSE ELSE Today > e.expiration_date

\* The filters both listings put on the query: category when given, and
\* unless include_expired the rows that do not expire or expire today or
\* later.
EntryFilters(rows, include_expired, category) ==
    {e \in rows :
        /\ (category # None => e.category = category)
        /\ (~include_expired =>
               (e.expiration_date = NoDate \/ e.expiration_date >= Today))}

\* list_entries(kb_id, include_expired, category): 404 when the knowledge
\* base does not exist; reading a class attribute KnowledgeEntry lacks
\* raises AttributeError; else the filtered rows.
ListEntries(kb_id, include_expired, category, kb_rows, rows) ==
    IF \A kb \in kb_rows : kb.id # kb_id
    THEN [raises |-> "HTTPException", entries |-> {}]
    ELSE IF ~(ListEntryReads \subseteq EntryColumns)
    THEN [raises |-> "AttributeError", entries |-> {}]
    ELSE [raises |-> None,
          entries |-> EntryFilters({e \in rows : e.knowledge_base_id = kb_id},
                                   include_expired, category)]

\* get_all_hotel_entries(hotel_id, include_expired, category): no entries
\* when the hotel has no knowledge base, else as list_entries over all of
\* them.
HotelEntries(hotel_id, include_expired, category, kb_rows, rows) ==
    IF KnowledgeBasesOf(hotel_id, kb_rows) = {}
    THEN [raises |-> None, entries |-> {}]
    ELSE IF ~(ListEntryReads \subseteq EntryColumns)
    THEN [raises |-> "AttributeError", entries |-> {}]
    ELSE [raises |-> None,
          entries |->
              EntryFilters({e \in rows : e.knowledge_base_id \in
                               {kb.id : kb \in KnowledgeBasesOf(hotel_id, kb_rows)}},
                           include_expired, category)]

\* create_entry(kb_id, data): 404 when the knowledge base does not exist;
\* the constructor rejects a keyword that is no attribute of the class with
\* TypeError; else the row is stored.
CreateEntryRaises(kb_id, kb_rows) ==
    IF \A kb \in kb_rows : kb.id # kb_id THEN "HTTPException"
    ELSE IF ~(CreateEntryKwargs \subseteq EntryColumns) THEN "TypeError"
    ELSE None

Request(op, target, include_expired, category, result) ==
    [op |-> op, target |-> target, include_expired |-> include_expired,
     category |-> category, raises |-> result.raises,
     entries |-> result.entries]

create_entry(kb_id, e) ==
    /\ e \notin entries
    /\ entries' = IF CreateEntryRaises(kb_id, kbs) = None
                  THEN entries \cup {e} ELSE entries
    /\ listed' = {Request("create_entry", kb_id, FALSE, None,
                          [raises |-> CreateEntryRaises(kb_id, kbs),
                           entries |-> {}])}
    /\ UNCHANGED <<callVars, endpointVars, sessionVars, setupVars,
                   handlerVars, knowledgeVars, pipelineVars, mapperVars,
                   phoneVars>>

\* A row of knowledge_entries stored for a hotel.
KnowledgeEntryStored(e) ==
    /\ e \notin entries
    /\ entries' = entries \cup {e}
    /\ UNCHANGED <<listed, callVars, endpointVars, sessionVars, setupVars,
                   handlerVars, knowledgeVars, pipelineVars, mapperVars,
                   phoneVars>>

list_entries(kb_id, include_expired, category) ==
    /\ listed' = {Request("list_entries", kb_id, include_expired, category,
                          ListEntries(kb_id, include_expired, category,
                                      kbs, entries))}
    /\ UNCHANGED <<entries, callVars, endpointVars, sessionVars, setupVars,
                   handlerVars, knowledgeVars, pipelineVars, mapperVars,
                   phoneVars>>

get_all_hotel_entries(hotel_id, include_expired, category) ==
    /\ listed' = {Request("get_all_hotel_entries", hotel_id, include_expired,
                          category,
                          HotelEntries(hotel_id, include_expired, category,
                                       kbs, entries))}
    /\ UNCHANGED <<entries, callVars, endpointVars, sessionVars, setupVars,
                   handlerVars, knowledgeVars, pipelineVars, mapperVars,
                   phoneVars>>

NextEntries ==
    \/ \E kb \in KnowledgeBaseUniverse : create_knowledge_base(kb)
    \/ \E kb \in KnowledgeBaseUniverse : delete_knowledge_base(kb)
    \/ \E kb \in KnowledgeBaseUniverse, e \in EntryUniverse :
           create_entry(kb.id, e)
    \/ \E e \in EntryUniverse : KnowledgeEntryStored(e)
    \/ \E kb \in KnowledgeBaseUniverse, x \in BOOLEAN,
          cat \in {None, "specials"} : list_entries(kb.id, x, cat)
    \/ \E h \in {"h1", "h2"}, x \in BOOLEAN, cat \in {None, "specials"} :
           get_all_hotel_entries(h, x, cat)

SpecEntries == Init /\ [][NextEntries]_vars

\* ------------------------------------------------- api-request schema
\* A parameter map is a dict in insertion order: a sequence of entries with
\* distinct names.  The required flag is written "true" or "false"; Absent
\* marks an entry without the key.
Absent == "absent"
ParamNames == {"city", "units", "days"}
ParamTypes == {"string", "integer"}
ParamEntries ==
    [name : ParamNames, type : ParamTypes,
     required : {"true", "false", Absent}]
ParameterMaps ==
    {p \in UNION {[1..n -> ParamEntries] : n \in 0..MaxParams} :
        \A i, j \in 1..Len(p) : p[i].name = p[j].name => i = j}

\* v.get("required", False)
GetRequired(v) ==
    IF v.required = Absent THEN FALSE ELSE v.required = "true"

\* Faulty variant of RequiredKeys: every key is listed.
RequiredKeysAll(parameters) ==
    [i \in 1..Len(parameters) |-> parameters[i].name]

\* [k for k, v in parameters.items() if v.get("required", False)]
RECURSIVE RequiredKeys(_)
RequiredKeys(parameters) ==
    IF parameters = <<>> THEN <<>>
    ELSE (IF GetRequired(Head(parameters))
          THEN <<Head(parameters).name>> ELSE <<>>)
         \o RequiredKeys(Tail(parameters))

\* The function schema _map_api_request builds for a tool.
ApiRequestSchema(name, description, parameters) ==
    [name |-> name,
     description |-> description,
     parameters |-> [type |-> "object",
                     properties |-> parameters,
                     required |-> RequiredKeys(parameters)]]

\* A tool of type api_request is stored with a parameter map.
ToolDefined(parameters) ==
    /\ m_parameters' = parameters
    /\ m_schema' = {}
    /\ UNCHANGED <<callVars, endpointVars, sessionVars, setupVars,
                   handlerVars, knowledgeVars, pipelineVars, entryVars,
                   phoneVars>>

_map_api_request ==
    /\ m_schema' = {ApiRequestSchema("get_weather", "Weather lookup",
                                     m_parameters)}
    /\ m_schema' # m_schema
    /\ UNCHANGED <<m_parameters, callVars, endpointVars, sessionVars,
                   setupVars, handlerVars, knowledgeVars, pipelineVars,
                   entryVars, phoneVars>>

NextMapper ==
    \/ \E p \in ParameterMaps : ToolDefined(p)
    \/ _map_api_request

SpecMapper == Init /\ [][NextMapper]_vars

\* ------------------------------------------------------- phone numbers
\* Values of AssignAssistantRequest.assistant_id: an assistant's id, or
\* null to unassign.
AssignRequests == {"a1", "a2", None}

RowsFor(n, rows) == {r \in rows : r.phone_number = n}

\* Faulty variant of UniqueViolation: the column is not unique.
NoUniqueConstraint(n, rows) == FALSE

\* phone_number is a unique column: a commit that would store a second
\* row with the same number raises IntegrityError.
UniqueViolation(n, rows) == RowsFor(n, rows) # {}

\* purchase_phone_number up to the look-up of the number: 409 when a row
\* with it exists.
PurchaseCheck(q, n) ==
    /\ ppc[q] = "idle"
    /\ p_number' = [p_number EXCEPT ![q] = n]
    /\ ppc' = [ppc EXCEPT ![q] =
                  IF RowsFor(n, phones) # {} THEN "conflict" ELSE "checked"]
    /\ UNCHANGED <<phones, last_assigned, callVars, endpointVars,
                   sessionVars, setupVars, handlerVars, knowledgeVars,
                   pipelineVars, entryVars, mapperVars>>

\* The rest of purchase_phone_number: the purchase at the provider, then
\* the insert and commit; any exception rolls back and answers 500.
PurchaseStore(q, purchased) ==
    /\ ppc[q] = "checked"
    /\ IF purchased /\ ~UniqueViolation(p_number[q], phones)
       THEN /\ phones' = phones \cup
                   {[id |-> q, phone_number |-> p_number[q],
                     assistant_id |-> None]}
            /\ last_assigned' = [last_assigned EXCEPT ![p_number[q]] = None]
            /\ ppc' = [ppc EXCEPT ![q] = "stored"]
       ELSE /\ ppc' = [ppc EXCEPT ![q] = "failed"]
            /\ UNCHANGED <<phones, last_assigned>>
    /\ UNCHANGED <<p_number, callVars, endpointVars, sessionVars, setupVars,
                   handlerVars, knowledgeVars, pipelineVars, entryVars,
                   mapperVars>>

\* assign_to_assistant(phone_number_id, request): 404 when the row does not
\* exist, else the row takes the requested assistant id, or NULL.
assign_to_assistant(id, assistant_id) ==
    /\ \E r \in phones :
          /\ r.id = id
          /\ phones' = (phones \ {r}) \cup
                 {[r EXCEPT !.assistant_id =
                      IF assistant_id # None THEN assistant_id ELSE None]}
          /\ last_assigned' =
                 [last_assigned EXCEPT ![r.phone_number] = assistant_id]
    /\ UNCHANGED <<ppc, p_number, callVars, endpointVars, sessionVars,
                   setupVars, handlerVars, knowledgeVars, pipelineVars,
                   entryVars, mapperVars>>

\* release_phone_number(phone_number_id): the row is deleted when the
\* provider released the number, and kept otherwise.
release_phone_number(id, success) ==
    /\ \E r \in phones :
          /\ r.id = id
          /\ phones' = IF success THEN phones \ {r} ELSE phones
    /\ UNCHANGED <<ppc, p_number, last_assigned, callVars, endpointVars,
                   sessionVars, setupVars, handlerVars, knowledgeVars,
                   pipelineVars, entryVars, mapperVars>>

NextPhones ==
    \/ \E q \in PurchaseRequests, n \in PurchasableNumbers :
           PurchaseCheck(q, n)
    \/ \E q \in PurchaseRequests, purchased \in BOOLEAN :
           PurchaseStore(q, purchased)
    \/ \E q \in PurchaseRequests, a \in AssignRequests :
           assign_to_assistant(q, a)
    \/ \E q \in PurchaseRequests, success \in BOOLEAN :
           release_phone_number(q, success)

SpecPhones == Init /\ [][NextPhones]_vars

\* ===================================================================== claims

\* A start event that carries both identifiers.
IsStartWithIds(m) ==
    m.kind = "text" /\ m.event = "start" /\ m.streamSid # None /\ m.callSid # None

\* The callee number has no phone record, or a record without an assistant.
NoAssistantAssigned(n) ==
    /\ n # ""
    /\ \A r \in PhoneNumbers : r.phone_number = n => r.assistant_id = None

Live(c) == pc[c] \in {"queue", "run"}

\* C1: on every exit path of handle_call, at the step on which the
\* invocation returns, its call sid is not a key of active_calls.
C1_RegistryClearedOnReturn ==
    [][\A c \in Calls :
         (pc[c] # "done" /\ pc'[c] = "done") => active_calls'[call_sid'[c]] = 0]_vars

\* C1 witness: an invocation that had stored its task has returned and its
\* call sid is no key of the registry.
C1_Witness ==
    \E c \in Calls :
        /\ pc[c] = "done" /\ registered[c] /\ outcome[c] = "ended"
        /\ active_calls[call_sid[c]] = 0

\* C2: a call to a number with no phone record or no assigned assistant never
\* gets a pipeline or a registry entry, and ends with its socket closed.
C2_UnassignedNumberRejected ==
    \A c \in Calls :
        (pc[c] # "idle" /\ NoAssistantAssigned(to_number[c])) =>
            /\ pc[c] = "done"
            /\ ws[c] = "DISCONNECTED"
            /\ ~built[c]
            /\ ~registered[c]
            /\ \A s \in RegistryKeys : active_calls[s] # c

\* C2 witness: one call to a number without a record and one to a number
\* whose record has no assistant have both been turned away.
C2_Witness ==
    \E c, d \in Calls :
        /\ to_number[c] = "+1000" /\ pc[c] = "done" /\ ws[c] = "DISCONNECTED"
        /\ to_number[d] = "+1005" /\ pc[d] = "done" /\ ws[d] = "DISCONNECTED"

\* C3: when the first message read is not a start event, or is a start event
\* without stream sid or call sid, the invocation has ended with the socket
\* closed, no pipeline, and no registry entry of its own, ever.
C3_BadHandshakeAborts ==
    \A c \in Calls :
        (msg[c].kind = "text" /\ ~IsStartWithIds(msg[c])) =>
            /\ pc[c] = "done"
            /\ ws[c] = "DISCONNECTED"
            /\ ~built[c]
            /\ ~registered[c]
            /\ \A s \in RegistryKeys : active_calls[s] # c

\* C3 witness: a start event without stream sid, and a message that is no
\* start event, have each ended an invocation.
C3_Witness ==
    \E c, d \in Calls :
        /\ msg[c].kind = "text" /\ msg[c].event = "start"
        /\ msg[c].streamSid = None /\ pc[c] = "done"
        /\ msg[d].kind = "text" /\ msg[d].event = "media" /\ pc[d] = "done"

\* C4: on the /ws/call endpoint the socket is accepted once, one message is
\* read, and a start event with all fields leads into handle_call (and so to
\* the pipeline).
C4_EndpointRunsCall ==
    \A e \in EConns :
        (emsg[e].kind = "text" /\ emsg[e].json /\ emsg[e].event = "start"
         /\ EndpointFieldsOk(emsg[e])) =>
            /\ eaccepts[e] = 1
            /\ ereads[e] = 1
            /\ ehandled[e]

\* C5: once handle_call has finished, a socket it had accepted is closed.
C5_ChannelClosedOnExit ==
    \A c \in Calls : pc[c] = "done" => ws[c] # "CONNECTED"

\* C6: a call with a valid start event to an assistant that has a configured
\* greeting and recognised providers has that greeting as its first speech,
\* queued before any caller audio.
C6_GreetingSpokenFirst ==
    \A c \in Calls :
        (/\ pc[c] \in {"run", "done"}
         /\ IsStartWithIds(msg[c])
         /\ AssistantOf(to_number[c]).greeting # None
         /\ ~CreatePipelineRaises(AssistantOf(to_number[c]))) =>
            /\ first_spoken[c] = AssistantOf(to_number[c]).greeting
            /\ (frames[c] # <<>> => frames[c][1].kind = "speak")

\* C7: hangup_call(sid) for an absent sid changes nothing; for a present sid
\* it sets the cancel flag of the task stored under sid and of no other
\* task, and leaves the registry and everything else as it was.
C7_HangupFrame ==
    [][\A sid \in CallSids :
         hangup_call(sid) =>
            /\ active_calls' = active_calls
            /\ pc' = pc /\ ws' = ws /\ outcome' = outcome
            /\ (active_calls[sid] = 0 => cancel' = cancel)
            /\ (active_calls[sid] # 0 =>
                  /\ cancel'[active_calls[sid]]
                  /\ \A c \in Calls \ {active_calls[sid]} : cancel'[c] = cancel[c])]_vars

\* C7 witness: two calls are in the registry, one has been told to cancel
\* and the other has not.
C7_Witness ==
    \E c, d \in Calls :
        /\ c # d /\ Live(c) /\ Live(d)
        /\ active_calls[call_sid[c]] = c /\ active_calls[call_sid[d]] = d
        /\ cancel[c] /\ ~cancel[d]

\* C8: a call ended by hangup has its socket released and its registry entry
\* removed, as a call whose stream ended has.
C8_HangupReleasesCall ==
    \A c \in Calls :
        outcome[c] = "cancelled" =>
            /\ ws[c] = "DISCONNECTED"
            /\ \A s \in RegistryKeys : active_calls[s] # c

\* C9: the step on which one invocation ends in a fatal error (rejected or
\* raised) leaves every other live invocation with its position, its socket,
\* its cancel flag and its registry entry.
C9_FatalErrorIsolated ==
    [][\A c \in Calls :
         (pc[c] # "done" /\ pc'[c] = "done" /\ outcome'[c] \in {"rejected", "error"}) =>
            \A d \in Calls \ {c} :
                Live(d) =>
                    /\ pc'[d] = pc[d]
                    /\ ws'[d] = ws[d]
                    /\ cancel'[d] = cancel[d]
                    /\ \A s \in RegistryKeys :
                           active_calls[s] = d => active_calls'[s] = d]_vars

Terminal(st) == st \in {"ended", "error"}

\* C11: the status of a session only moves forward, initializing to active
\* to ended or error, and a session that has reached ended or error stays
\* there whatever is called on it.
C11_StatusOnlyForward ==
    [][\A o \in SessionObjs :
         /\ (Terminal(status[o]) => Terminal(status'[o]))
         /\ (status[o] = "active" => status'[o] # "initializing")]_vars

\* The speech-to-text, language-model or speech-synthesis provider of the
\* row is one the factory has no service for, or its language-model id is
\* not in the catalogue.
ProviderOrModelUnrecognised(row) ==
    \/ CreatePipelineRaises(row)
    \/ row.llm_model \notin AvailableLlmModels(row.llm_provider)

\* C12: a call whose assistant has an unrecognised provider or model id and
\* that has read a valid start event has ended in an error with no pipeline
\* task, no greeting queued, no audio processed and no registry entry.
C12_UnrecognisedFailsAtAssembly ==
    \A c \in Calls :
        (/\ IsStartWithIds(msg[c])
         /\ ProviderOrModelUnrecognised(AssistantOf(to_number[c]))) =>
            /\ pc[c] = "done"
            /\ outcome[c] = "error"
            /\ ~built[c]
            /\ ~registered[c]
            /\ frames[c] = <<>>
            /\ first_spoken[c] = None

\* C13: when initialising the analyzers fails, create_transport_params
\* still returns parameters, without the analyzers, and the call goes on:
\* assembly never fails at that step.
C13_AnalyzerFailureDegrades ==
    s_vad \in {"import_error", "init_error"} =>
        /\ s_failed_at # "transport"
        /\ (spc \in {"pipeline", "functions", "run"} =>
               s_params = NoAnalyzers)

\* Positions of an event in the trace of the current invocation.
At(ev) == {i \in 1..Len(h_trace) : h_trace[i] = ev}
IsResult(ev) ==
    ev \in {"result_transferred", "result_call_ended", "result_data",
            "result_error"}
IsTransferCommand(ev) == ev \in {"transfer_ok", "transfer_error"}

\* C14: in a transfer_call or end_call invocation the result callback has
\* been invoked before the end frame is pushed.
C14_ResultBeforeEndFrame ==
    h_kind \in {"transfer_call", "end_call"} =>
        \A i \in At("end_frame") :
            \E j \in 1..(i - 1) : IsResult(h_trace[j])

\* C15: in a transfer_call invocation the pre-transfer message is pushed
\* before the transfer command is issued, and the end frame is pushed only
\* after the transfer command has been issued.
C15_TransferOrdering ==
    h_kind = "transfer_call" =>
        /\ \A j \in 1..Len(h_trace) :
               IsTransferCommand(h_trace[j]) =>
                   \E k \in 1..(j - 1) : h_trace[k] = "speak"
        /\ \A i \in At("end_frame") :
               \E j \in 1..(i - 1) : IsTransferCommand(h_trace[j])

\* C16: an api_request invocation that has finished raised nothing, and one
\* that did not get a JSON answer gave an error payload to the result
\* callback.
C16_ApiRequestNeverRaises ==
    (h_kind = "api_request" /\ hpc = "done") =>
        /\ h_raised = None
        /\ (At("result_data") = {} => At("result_error") # {})


\* C17: a tool definition of category send-sms or send-email is callable:
\* mapping it yields a handler (one that answers with a "not supported"
\* error result) rather than raising.
C17_UnsupportedToolCallable ==
    \A mp \in mapped :
        mp.tool.tool_type \in {"send_sms", "send_email"} =>
            mp.outcome = "handler"


\* The tenant that owns a tool: the hotel of the assistant the tool row
\* belongs to.  A tenant has a corpus when one of its knowledge bases holds
\* a document.
TenantOfTool(t) == (CHOOSE r \in Assistants : r.id = t.assistant_id).hotel_id
HasCorpus(hotel_id) ==
    \E kb \in kbs, d \in docs :
        kb.hotel_id = hotel_id /\ d.knowledge_base_id = kb.id
TenantFunctions(row) ==
    {t.name : t \in {u \in tools : /\ u.is_active = "true"
                                   /\ TenantOfTool(u) = row.hotel_id}}
        \cup (IF HasCorpus(row.hotel_id)
              THEN {"query_hotel_knowledge"} ELSE {})

\* C18: when the function-calling step of the assembly has run, the
\* functions registered on the LLM stage are exactly the active tools of the
\* call's tenant, plus the knowledge tool when the tenant has a corpus.
C18_RegisteredAreTenantsActiveTools ==
    [][(spc = "functions" /\ spc' = "run") =>
           s_fns' = TenantFunctions(SetupRow)]_vars


\* C19: when load_hotel_knowledge answers for a tenant whose corpus is
\* empty (no knowledge bases, or none of them holds a document), the
\* invocation ends there: the only thing it has done is to give the canned
\* "not available" answer to the result callback, and no model request was
\* made.
C19_EmptyCorpusCannedAnswer ==
    [][(/\ kpc = "load" /\ kpc' # "load"
        /\ k_env.repository = "ok"
        /\ ~HasCorpus(k_args.hotel_id)) =>
           /\ kpc' = "done"
           /\ k_trace' = <<"result_not_available">>
           /\ k_raised' = None]_vars

\* C19 witness: tenant h1 has a knowledge base without documents while
\* tenant h2 has a corpus, and an invocation for h1 has ended with the
\* canned answer.
C19_Witness ==
    /\ kpc = "done"
    /\ k_args.hotel_id = "h1"
    /\ k_trace = <<"result_not_available">>
    /\ \E kb \in kbs : kb.hotel_id = "h1"
    /\ ~HasCorpus("h1")
    /\ HasCorpus("h2")

\* A failure while loading the corpus or querying the model: the
\* repository raises, the credential is missing, or the request fails.
KnowledgeFailed ==
    /\ k_args.question # "" /\ k_args.hotel_id # ""
    /\ \/ k_env.repository = "error"
       \/ /\ k_content.len > 0
          /\ (~k_env.api_key \/ k_env.request # "ok")

\* C20: an invocation that has finished after a failure while loading the
\* corpus or querying the model raised nothing, and the last thing it did
\* was to give the fallback phrase to the result callback.
C20_FailureGivesFallback ==
    (kpc = "done" /\ KnowledgeFailed) =>
        /\ k_raised = None
        /\ k_trace # <<>>
        /\ k_trace[Len(k_trace)] = "result_fallback"

\* C20 witness: the corpus was loaded, the model request was made and
\* failed, and the fallback phrase was delivered.
C20_Witness ==
    /\ kpc = "done"
    /\ k_caught = "APIError"
    /\ k_content.len > 0
    /\ k_trace = <<"model_request", "result_fallback">>


\* C26: the corpus text of an invocation that made a model request is at
\* most MAX_KNOWLEDGE_CHARS characters long.
C26_CorpusWithinCeiling ==
    (\E i \in 1..Len(k_trace) : k_trace[i] = "model_request") =>
        k_content.len <= MAX_KNOWLEDGE_CHARS


\* Results given to the result callback in the current invocation of a
\* function_mapper handler, and of query_hotel_knowledge.
HandlerResults == {i \in 1..Len(h_trace) : IsResult(h_trace[i])}
KnowledgeResults ==
    {i \in 1..Len(k_trace) :
        k_trace[i] \in {"result_repeat", "result_no_access",
                        "result_not_available", "result_answer",
                        "result_fallback"}}

\* C24: a handler that has finished has invoked the result callback exactly
\* once, whichever path it took, and raised nothing.
C24_ResultExactlyOnce ==
    /\ hpc = "done" => (Cardinality(HandlerResults) = 1 /\ h_raised = None)
    /\ kpc = "done" => (Cardinality(KnowledgeResults) = 1 /\ k_raised = None)

\* C29: the transfer handler reports "transferred" only after a transfer
\* command that went through.
C29_TransferredOnlyIfIssued ==
    h_kind = "transfer_call" =>
        \A i \in At("result_transferred") :
            \E j \in 1..(i - 1) : h_trace[j] = "transfer_ok"


\* The session object is a value of active_sessions.
Reachable(o, sessions) == \E i \in SessionIds : sessions[i] = o

\* C30: a session that stops being reachable through active_sessions has
\* status ended at that moment, also when it is a create_session with its
\* session id that replaces it.
C30_UnreachableSessionsEnded ==
    [][\A o \in SessionObjs :
         (Reachable(o, active_sessions) /\ ~Reachable(o, active_sessions')) =>
             status'[o] = "ended"]_vars


\* The phone_numbers table has a record for the number with an assistant
\* assigned, and that assistant is a row of the assistants table.
PhoneRecordAssigned(n) ==
    \E r \in PhoneNumbers : r.phone_number = n /\ r.assistant_id # None
AssignedAssistantExists(n) ==
    \E r \in PhoneNumbers, a \in Assistants :
        r.phone_number = n /\ a.id = r.assistant_id

\* C27: an invocation that has built a pipeline, stored its task, queued
\* the greeting or is running was called with a non-empty number that has a
\* phone record with an assigned, existing assistant, and has read a start
\* event with stream sid and call sid.
C27_StepsOnlyAfterChecks ==
    \A c \in Calls :
        (\/ built[c] \/ registered[c] \/ frames[c] # <<>>
         \/ first_spoken[c] # None \/ pc[c] \in {"queue", "run"}) =>
            /\ to_number[c] # ""
            /\ PhoneRecordAssigned(to_number[c])
            /\ AssignedAssistantExists(to_number[c])
            /\ IsStartWithIds(msg[c])

\* C27 witness: a call to a number whose record names an assistant that
\* does not exist has been turned away with nothing built, while a call to
\* an assigned number runs its pipeline.
C27_Witness ==
    \E c, d \in Calls :
        /\ to_number[c] = "+1009" /\ pc[c] = "done" /\ ~built[c]
        /\ to_number[d] = "+1001" /\ pc[d] = "run" /\ built[d]
        /\ registered[d] /\ frames[d] # <<>>

\* C28: an invocation between storing its task and returning finds its own
\* task under its call sid in active_calls.
C28_RunningCallOwnsEntry ==
    \A c \in Calls : Live(c) => active_calls[call_sid[c]] = c


StageOrder ==
    <<"transport_input", "stt", "user_aggregator", "llm", "tts",
      "transport_output", "assistant_aggregator">>

Listings == {"list_entries", "get_all_hotel_entries"}
TenantOf(r) ==
    IF r.op = "get_all_hotel_entries" THEN r.target
    ELSE (CHOOSE kb \in KnowledgeBaseUniverse : kb.id = r.target).hotel_id
TenantEntries(r, rows) ==
    {e \in rows :
        /\ e.hotel_id = TenantOf(r)
        /\ (r.category # None => e.category = r.category)
        /\ (r.include_expired \/ ~is_expired(e))}
C21_ExpiredEntriesFiltered ==
    [][listed' # listed =>
          \A r \in listed' :
              (/\ r.op \in Listings
               /\ r.raises # "HTTPException"
               /\ KnowledgeBasesOf(TenantOf(r), kbs) # {}) =>
                  /\ r.raises = None
                  /\ r.entries = TenantEntries(r, entries)]_vars


\* C22: reading the parameters back from the schema the mapper produced
\* gives the tool's parameter map: the same names in the same order, each
\* with its type, and a parameter is in the schema's required list exactly
\* when the map flags it required.
SchemaRequired(s) ==
    {s.parameters.required[i] : i \in 1..Len(s.parameters.required)}
ReadBack(s) ==
    [i \in 1..Len(s.parameters.properties) |->
        [name |-> s.parameters.properties[i].name,
         type |-> s.parameters.properties[i].type,
         required |-> s.parameters.properties[i].name \in SchemaRequired(s)]]
Flagged(parameters) ==
    [i \in 1..Len(parameters) |->
        [name |-> parameters[i].name,
         type |-> parameters[i].type,
         required |-> parameters[i].required = "true"]]
ResolvedAssistants(n) ==
    {r.assistant_id : r \in {x \in RowsFor(n, phones) : x.assistant_id # None}}
C23_OneAssistantPerNumber ==
    \A n \in PurchasableNumbers :
        /\ Cardinality(RowsFor(n, phones)) <= 1
        /\ Cardinality(ResolvedAssistants(n)) <= 1
        /\ \A r \in RowsFor(n, phones) : r.assistant_id = last_assigned[n]
C23_Witness ==
    \E q, p \in PurchaseRequests :
        /\ q # p
        /\ p_number[q] = p_number[p]
        /\ ppc[q] = "stored"
        /\ ppc[p] = "failed"
        /\ \E r \in phones : r.id = q /\ r.assistant_id = "a2"

====
